---- MODULE Spec2Model ----
(***************************************************************************)
(* Model of the EOS hierarchy and fit driver (hybridqha/eos.py) and of the *)
(* single-oscillator formulas (anaqha/statmech.py).                        *)
(*                                                                         *)
(* Numbers: the stored parameters and the volumes are drawn from ParamVals *)
(* and Volumes, so that every v0/v is the cube of a rational and the       *)
(* fractional powers of the pressure formulas are exact rationals.  Python *)
(* floats are modelled as exact rationals <<n, d>>; a pressure value is a  *)
(* pair <<c, e>> standing for c * exp(e).                                  *)
(***************************************************************************)
EXTENDS Integers, Sequences, FiniteSets, TLC

VARIABLES
    variant,   \* the concrete class of the instance
    params,    \* self._params
    pc,        \* "idle", or "loop" while fit is running
    frame,     \* the locals of the running fit call
    calls,     \* the solver calls made by the operation in progress or just ended
    last,      \* the outcome of the last operation on the instance
    sm         \* the last call of a statistical-mechanics formula

vars == <<variant, params, pc, frame, calls, last, sm>>

eosVars == <<variant, params, pc, frame, calls, last>>

-----------------------------------------------------------------------------
(* Bounds *)

MaxParams == 5

MaxIter == 2

MaxRoot == 2

MaxArr == 2

ParamVals == {1, 8}

Volumes == {1, 8}

CovVals == {0, 1}

Options == {"f", "p", "x"}

Temps == {0, 1, 2}

FreqVals == {-1, 0, 1, 2}

-----------------------------------------------------------------------------
(* Exact rational arithmetic standing for the float arithmetic of eos.py *)

Abs(a) == IF a < 0 THEN -a ELSE a

RECURSIVE GCD(_, _)
GCD(a, b) == IF b = 0 THEN a ELSE GCD(b, a % b)

Rat(n, d) ==
    LET g == GCD(Abs(n), Abs(d))
        s == IF d < 0 THEN -1 ELSE 1
    IN  <<(s * n) \div g, (s * d) \div g>>

RInt(k) == <<k, 1>>

RAdd(x, y) == Rat(x[1] * y[2] + y[1] * x[2], x[2] * y[2])

RSub(x, y) == Rat(x[1] * y[2] - y[1] * x[2], x[2] * y[2])

RMul(x, y) == Rat(x[1] * y[1], x[2] * y[2])

RDiv(x, y) == Rat(x[1] * y[2], x[2] * y[1])

RECURSIVE RPow(_, _)
RPow(x, k) == IF k = 0 THEN RInt(1) ELSE RMul(x, RPow(x, k - 1))

RootCands == {Rat(n, d) : n \in 1..MaxRoot, d \in 1..MaxRoot}

(* x ** (p / q) for x the q-th power of a rational *)
RPowQ(x, p, q) == RPow(CHOOSE r \in RootCands : RPow(r, q) = x, p)

(* c * np.exp(e) *)
MulExp(c, e) == IF c[1] = 0 THEN <<c, RInt(0)>> ELSE <<c, e>>

Real(c) == <<c, RInt(0)>>

RealZero == Real(RInt(0))

-----------------------------------------------------------------------------
(* The variants and the signatures of their two static functions *)

Variants == {"Birch", "Murnaghan", "BirchMurnaghan2nd", "BirchMurnaghan3rd",
             "BirchMurnaghan4th", "Vinet"}

FreeSig(var) ==
    CASE var = "BirchMurnaghan2nd" -> <<"v0", "b0", "f0">>
      [] var = "BirchMurnaghan4th" -> <<"v0", "b0", "bp0", "bpp0", "f0">>
      [] OTHER -> <<"v0", "b0", "bp0", "f0">>

PressSig(var) ==
    CASE var = "BirchMurnaghan2nd" -> <<"v0", "b0">>
      [] var = "BirchMurnaghan4th" -> <<"v0", "b0", "bpp0", "bp0">>
      [] OTHER -> <<"v0", "b0", "bp0">>

Dispatch(option, var) == IF option = "f" THEN FreeSig(var) ELSE PressSig(var)

(* names of sig without a default value: only f0 has one (f0=0) *)
Required(sig) == Cardinality({i \in 1..Len(sig) : sig[i] # "f0"})

(* f(v, *p) raises TypeError unless the number of positionals fits *)
ArityOK(sig, p) == Len(p) >= Required(sig) /\ Len(p) <= Len(sig)

(* positional binding of f(v, *p): name -> value, f0 defaulting to 0 *)
Bind(sig, p) ==
    [nm \in {sig[i] : i \in 1..Len(sig)} |->
        LET i == CHOOSE j \in 1..Len(sig) : sig[j] = nm
        IN  IF i <= Len(p) THEN p[i] ELSE 0]

-----------------------------------------------------------------------------
(* The closed-form pressure functions; a is the binding of the call *)

BirchPressure(v, a) ==
    LET x  == RDiv(RInt(a["v0"]), RInt(v))
        xi == RSub(RPowQ(x, 2, 3), RInt(1))
    IN  Real(RMul(RMul(RMul(RMul(Rat(3, 8), RInt(a["b0"])), RPowQ(x, 5, 3)), xi),
                  RAdd(RInt(4), RMul(RMul(RInt(3), RInt(a["bp0"] - 4)), xi))))

MurnaghanPressure(v, a) ==
    Real(RMul(RDiv(RInt(a["b0"]), RInt(a["bp0"])),
              RSub(RPow(RDiv(RInt(a["v0"]), RInt(v)), a["bp0"]), RInt(1))))

BirchMurnaghan2ndPressure(v, a) ==
    LET f == RDiv(RSub(RPowQ(RDiv(RInt(a["v0"]), RInt(v)), 2, 3), RInt(1)), RInt(2))
    IN  Real(RMul(RMul(RMul(RInt(3), RInt(a["b0"])), f),
                  RPowQ(RAdd(RInt(1), RMul(RInt(2), f)), 5, 2)))

BirchMurnaghan3rdPressure(v, a) ==
    LET eta == RPowQ(RDiv(RInt(a["v0"]), RInt(v)), 1, 3)
    IN  Real(RMul(RMul(RMul(Rat(3, 2), RInt(a["b0"])),
                       RSub(RPow(eta, 7), RPow(eta, 5))),
                  RAdd(RInt(1),
                       RMul(RMul(Rat(3, 4), RInt(a["bp0"] - 4)),
                            RSub(RPow(eta, 2), RInt(1))))))

BirchMurnaghan4thPressure(v, a) ==
    LET f == RDiv(RSub(RPowQ(RDiv(RInt(a["v0"]), RInt(v)), 2, 3), RInt(1)), RInt(2))
        h == a["b0"] * a["bpp0"] + a["bp0"] * a["bp0"]
    IN  Real(RMul(RMul(RMul(Rat(1, 2), RInt(a["b0"])),
                       RPowQ(RAdd(RMul(RInt(2), f), RInt(1)), 5, 2)),
                  RAdd(RAdd(RMul(RInt(9 * h - 63 * a["bp0"] + 143), RPow(f, 2)),
                            RMul(RInt(9 * (a["bp0"] - 4)), f)),
                       RInt(6))))

VinetPressure(v, a) ==
    LET x  == RPowQ(RDiv(RInt(v), RInt(a["v0"])), 1, 3)
        xi == RMul(Rat(3, 2), RInt(a["bp0"] - 1))
    IN  MulExp(RMul(RDiv(RMul(RInt(3), RInt(a["b0"])), RPow(x, 2)), RSub(RInt(1), x)),
               RMul(xi, RSub(RInt(1), x)))

PressureFn(var, v, a) ==
    CASE var = "Birch" -> BirchPressure(v, a)
      [] var = "Murnaghan" -> MurnaghanPressure(v, a)
      [] var = "BirchMurnaghan2nd" -> BirchMurnaghan2ndPressure(v, a)
      [] var = "BirchMurnaghan3rd" -> BirchMurnaghan3rdPressure(v, a)
      [] var = "BirchMurnaghan4th" -> BirchMurnaghan4thPressure(v, a)
      [] var = "Vinet" -> VinetPressure(v, a)

-----------------------------------------------------------------------------
(* The stored parameter vector: None, or a tuple / array of numbers *)

NoneP == [isNone |-> TRUE, v |-> <<>>]

Some(p) == [isNone |-> FALSE, v |-> p]

Vectors(n) == [1..n -> ParamVals]

AllVectors == UNION {Vectors(n) : n \in 0..MaxParams}

(* the free-energy value is kept as the formal application of the variant's *)
(* function to the bound arguments                                          *)
FreeEnergyFn(var, v, a) == [fn |-> "_free_energy_at", variant |-> var, v |-> v, args |-> a]

NoFrame ==
    [option |-> "", maxiter |-> 0, i |-> 0, bound |-> FALSE,
     popt |-> <<>>, pcov |-> 0, pre |-> NoneP]

SmNone ==
    [fn |-> "", T |-> 0, arr |-> FALSE, w |-> <<>>, status |-> "", scalar |-> TRUE,
     vals |-> <<>>]

(* EOS.__init__: the tuple of the positional arguments is stored as is *)
Construct(var, p) ==
    /\ variant = var
    /\ params = Some(p)
    /\ pc = "idle"
    /\ frame = NoFrame
    /\ calls = <<>>
    /\ last = [op |-> "init", status |-> "ok"]

Init ==
    /\ \E var \in Variants, p \in AllVectors : Construct(var, p)
    /\ sm = SmNone

(* params.setter *)
SetParams(value) ==
    /\ pc = "idle"
    /\ params' = value
    /\ last' = [op |-> "set", status |-> "ok"]
    /\ calls' = <<>>
    /\ UNCHANGED <<variant, pc, frame, sm>>

(* the outcome of self._f(np.array(v, float), *self._params) guarded by     *)
(* "self._params is not None"                                               *)
Evaluate(op, sig, v) ==
    IF params.isNone THEN [op |-> op, status |-> "ParametersNotSet", v |-> v]
    ELSE IF ~ArityOK(sig, params.v) THEN [op |-> op, status |-> "TypeError", v |-> v]
    ELSE [op |-> op, status |-> "ok", v |-> v, bind |-> Bind(sig, params.v),
          val |-> IF op = "pressure_at"
                  THEN PressureFn(variant, v, Bind(sig, params.v))
                  ELSE FreeEnergyFn(variant, v, Bind(sig, params.v))]

free_energy_at(v) ==
    /\ pc = "idle"
    /\ last' = Evaluate("free_energy_at", FreeSig(variant), v)
    /\ calls' = <<>>
    /\ UNCHANGED <<variant, params, pc, frame, sm>>

pressure_at(v) ==
    /\ pc = "idle"
    /\ last' = Evaluate("pressure_at", PressSig(variant), v)
    /\ calls' = <<>>
    /\ UNCHANGED <<variant, params, pc, frame, sm>>

-----------------------------------------------------------------------------
(* EOS.fit, one step per statement of interest *)

Ones(n) == [i \in 1..n |-> 1]

(* curve_fit's starting point: p0, or ones(number of fit parameters) when   *)
(* p0 is None                                                               *)
StartPoint(sig, p0) == IF p0.isNone THEN Ones(Len(sig)) ELSE p0.v

(* the answers the external solver may give from a starting point: the      *)
(* same vector (already converged) or one refined in a single coordinate    *)
SolverOutputs(start) ==
    {q \in Vectors(Len(start)) : Cardinality({i \in 1..Len(start) : q[i] # start[i]}) <= 1}

(* a lookup that falls back to a function for every option *)
LookupNeverFails(option) == FALSE

(* dispatch[option] raises KeyError, turned into the ValueError of line 54 *)
LookupFails(option) == option \notin {"f", "p"}

(* a loop whose body runs before the count is tested *)
LoopContinuesAtLeastOnce == frame.i < frame.maxiter \/ frame.i = 0

(* for _ in range(maxiter) *)
LoopContinues == frame.i < frame.maxiter

(* a solver always started from the parameters stored before fit *)
InitialGuessOfCall == frame.pre

(* p0=self._params *)
InitialGuess == params

(* lines 50-54: the dispatch lookup *)
FitBegin(option, maxiter) ==
    /\ pc = "idle"
    /\ calls' = <<>>
    /\ IF LookupFails(option)
       THEN /\ last' = [op |-> "fit", status |-> "UnknownFitTarget", option |-> option,
                        maxiter |-> maxiter, pre |-> params]
            /\ UNCHANGED <<pc, frame>>
       ELSE /\ pc' = "loop"
            /\ frame' = [NoFrame EXCEPT !.option = option, !.maxiter = maxiter,
                                        !.pre = params]
            /\ last' = [op |-> "fit", status |-> "running"]
    /\ UNCHANGED <<variant, params, sm>>

Raised(status) ==
    [op |-> "fit", status |-> status, option |-> frame.option,
     maxiter |-> frame.maxiter, pre |-> frame.pre]

(* as FitIterateFail, but putting back the parameters stored before fit *)
FitIterateFailRollback ==
    /\ pc = "loop"
    /\ LoopContinues
    /\ LET sig == Dispatch(frame.option, variant)
       IN  /\ last' = Raised(IF ArityOK(sig, StartPoint(sig, InitialGuess))
                             THEN "FitDidNotConverge" ELSE "TypeError")
           /\ calls' = Append(calls, [p0 |-> InitialGuess, ok |-> FALSE,
                                      popt |-> <<>>, pcov |-> 0])
    /\ pc' = "idle"
    /\ frame' = NoFrame
    /\ params' = frame.pre
    /\ UNCHANGED <<variant, sm>>

(* lines 56-58: one iteration whose solver call raises: the model function  *)
(* rejects the number of parameters (TypeError), or the solver gives up     *)
(* (RuntimeError); the error leaves fit at once                             *)
FitIterateFail ==
    /\ pc = "loop"
    /\ LoopContinues
    /\ LET sig == Dispatch(frame.option, variant)
       IN  /\ last' = Raised(IF ArityOK(sig, StartPoint(sig, InitialGuess))
                             THEN "FitDidNotConverge" ELSE "TypeError")
           /\ calls' = Append(calls, [p0 |-> InitialGuess, ok |-> FALSE,
                                      popt |-> <<>>, pcov |-> 0])
    /\ pc' = "idle"
    /\ frame' = NoFrame
    /\ UNCHANGED <<variant, params, sm>>

(* lines 56-58: one iteration whose solver call returns popt, pcov *)
FitIterateOk ==
    /\ pc = "loop"
    /\ LoopContinues
    /\ LET sig == Dispatch(frame.option, variant)
       IN  /\ ArityOK(sig, StartPoint(sig, InitialGuess))
           /\ \E popt \in SolverOutputs(StartPoint(sig, InitialGuess)), pcov \in CovVals :
                /\ calls' = Append(calls, [p0 |-> InitialGuess, ok |-> TRUE,
                                           popt |-> popt, pcov |-> pcov])
                /\ frame' = [frame EXCEPT !.i = @ + 1, !.bound = TRUE,
                                          !.popt = popt, !.pcov = pcov]
                /\ params' = Some(popt)
    /\ UNCHANGED <<variant, pc, last, sm>>

(* line 60: return popt, pcov *)
FitReturn ==
    /\ pc = "loop"
    /\ ~LoopContinues
    /\ last' = IF frame.bound
               THEN [op |-> "fit", status |-> "ok", option |-> frame.option,
                     maxiter |-> frame.maxiter, pre |-> frame.pre,
                     ret |-> <<frame.popt, frame.pcov>>]
               ELSE Raised("UnboundLocalError")
    /\ pc' = "idle"
    /\ frame' = NoFrame
    /\ UNCHANGED <<variant, params, calls, sm>>

Next ==
    \/ \E value \in {NoneP} \cup {Some(p) : p \in AllVectors} : SetParams(value)
    \/ \E v \in Volumes : free_energy_at(v)
    \/ \E v \in Volumes : pressure_at(v)
    \/ \E option \in Options, maxiter \in 0..MaxIter : FitBegin(option, maxiter)
    \/ FitIterateFail
    \/ FitIterateOk
    \/ FitReturn

Spec == Init /\ [][Next]_vars

-----------------------------------------------------------------------------
(* statmech.py.  A frequency argument is a Python number (arr = FALSE, one  *)
(* entry) or a numpy array of one or more entries; the temperature is a    *)
(* Python number.  The values of the closed forms are kept as formal terms. *)

Scalar(x) == [arr |-> FALSE, w |-> <<x>>]

Array(xs) == [arr |-> TRUE, w |-> xs]

FreqInputs ==
    {Scalar(x) : x \in FreqVals}
        \cup {Array(xs) : xs \in UNION {[1..n -> FreqVals] : n \in 1..MaxArr}}

(* frequency < 0 and frequency == 0, element by element *)
Less0(fq) == [i \in 1..Len(fq.w) |-> fq.w[i] < 0]

EqZero(fq) == [i \in 1..Len(fq.w) |-> fq.w[i] = 0]

(* the truth value an if statement takes of a comparison: that of the only  *)
(* element, and a ValueError for an array of two or more elements           *)
Truth(b) == IF Len(b) = 1 THEN (IF b[1] THEN "True" ELSE "False") ELSE "ValueError"

Term(q, T, x) == [q |-> q, T |-> T, x |-> x]

Return(scalar, vals) == [status |-> "ok", scalar |-> scalar, vals |-> vals]

Raise(err) == [status |-> err, scalar |-> TRUE, vals |-> <<>>]

_validate_frequency(fq) ==
    CASE Truth(Less0(fq)) = "ValueError" -> "AmbiguousTruthValue"
      [] Truth(Less0(fq)) = "True" -> "InvalidFrequency"
      [] OTHER -> "ok"

(* a closed form q dividing by Boltzmann * temperature: float division by   *)
(* zero raises for Python numbers, numpy arrays carry on element by element *)
ClosedForm(q, T, fq) ==
    IF ~fq.arr /\ T = 0 THEN Raise("ZeroDivisionError")
    ELSE Return(~fq.arr, [i \in 1..Len(fq.w) |-> Term(q, T, fq.w[i])])

(* validation, the frequency == 0 special case, then the closed form *)
Guarded(q, special, T, fq) ==
    IF _validate_frequency(fq) # "ok" THEN Raise(_validate_frequency(fq))
    ELSE IF Truth(EqZero(fq)) = "True" THEN Return(TRUE, <<special>>)
    ELSE ClosedForm(q, T, fq)

bose_einstein_distribution(T, fq) == ClosedForm("n", T, fq)

subsystem_partition_function(T, fq) == Guarded("Z", Term("1", 0, 0), T, fq)

subsystem_free_energy(T, fq) == Guarded("F", Term("0", 0, 0), T, fq)

subsystem_internal_energy(T, fq) == Guarded("U", Term("Boltzmann*T", T, 0), T, fq)

subsystem_entropy(T, fq) ==
    IF _validate_frequency(fq) # "ok" THEN Raise(_validate_frequency(fq))
    ELSE IF bose_einstein_distribution(T, fq).status # "ok"
         THEN bose_einstein_distribution(T, fq)
         ELSE ClosedForm("S", T, fq)

subsystem_volumetric_specific_heat(T, fq) == Guarded("Cv", Term("Boltzmann", 0, 0), T, fq)

Formulas ==
    {"bose_einstein_distribution", "subsystem_partition_function",
     "subsystem_free_energy", "subsystem_internal_energy", "subsystem_entropy",
     "subsystem_volumetric_specific_heat"}

Apply(fn, T, fq) ==
    CASE fn = "bose_einstein_distribution" -> bose_einstein_distribution(T, fq)
      [] fn = "subsystem_partition_function" -> subsystem_partition_function(T, fq)
      [] fn = "subsystem_free_energy" -> subsystem_free_energy(T, fq)
      [] fn = "subsystem_internal_energy" -> subsystem_internal_energy(T, fq)
      [] fn = "subsystem_entropy" -> subsystem_entropy(T, fq)
      [] fn = "subsystem_volumetric_specific_heat" ->
            subsystem_volumetric_specific_heat(T, fq)

CallFormula(fn) ==
    /\ \E T \in Temps, fq \in FreqInputs :
          sm' = [fn |-> fn, T |-> T, arr |-> fq.arr, w |-> fq.w,
                 status |-> Apply(fn, T, fq).status,
                 scalar |-> Apply(fn, T, fq).scalar,
                 vals |-> Apply(fn, T, fq).vals]
    /\ UNCHANGED eosVars

InitStat ==
    /\ Construct("Birch", <<>>)
    /\ sm = SmNone

NextStat ==
    \/ CallFormula("bose_einstein_distribution")
    \/ CallFormula("subsystem_partition_function")
    \/ CallFormula("subsystem_free_energy")
    \/ CallFormula("subsystem_internal_energy")
    \/ CallFormula("subsystem_entropy")
    \/ CallFormula("subsystem_volumetric_specific_heat")

SpecStat == InitStat /\ [][NextStat]_vars

-----------------------------------------------------------------------------
(* Properties of the EOS instance, checked under Spec *)

EvalOps == {"free_energy_at", "pressure_at"}

FitEnded == pc = "idle" /\ last.op = "fit"

AllCallsOk == \A i \in 1..Len(calls) : calls[i].ok

(* C1: a fit with target 'f' or 'p' and max_iterations >= 1 whose solver    *)
(* calls all succeed makes exactly max_iterations calls, the first from the *)
(* vector stored before the call and each later one from the output of the  *)
(* call before it; it stores the output of the last call and returns that   *)
(* vector with the covariance of the last call.                             *)
C1_FitChainsAndStores ==
    (FitEnded /\ last.option \in {"f", "p"} /\ last.maxiter >= 1 /\ AllCallsOk) =>
        /\ last.status = "ok"
        /\ Len(calls) = last.maxiter
        /\ calls[1].p0 = last.pre
        /\ \A i \in 1..(Len(calls) - 1) : calls[i + 1].p0 = Some(calls[i].popt)
        /\ params = Some(calls[Len(calls)].popt)
        /\ last.ret = <<params.v, calls[Len(calls)].pcov>>

C1_Witness ==
    /\ FitEnded /\ last.status = "ok" /\ Len(calls) >= 2
    /\ Some(calls[1].popt) # last.pre
    /\ calls[2].popt # calls[1].popt
    /\ calls[2].pcov # calls[1].pcov

(* C2: an instance constructed with no initial parameter values fails       *)
(* free_energy_at and pressure_at with ParametersNotSet.                    *)
C2_EmptyConstructionNotSet ==
    [][(last.op = "init" /\ params = Some(<<>>) /\ last'.op \in EvalOps)
          => last'.status = "ParametersNotSet"]_vars

(* C3: fit with a target other than 'f' or 'p' raises UnknownFitTarget      *)
(* before any solver call and leaves the stored parameter vector as it was. *)
C3_UnknownTargetRaisesFirst ==
    (FitEnded /\ last.option \notin {"f", "p"}) =>
        /\ last.status = "UnknownFitTarget"
        /\ calls = <<>>
        /\ params = last.pre

C3_Witness ==
    /\ FitEnded /\ last.status = "UnknownFitTarget" /\ last.maxiter >= 1
    /\ ~params.isNone /\ ArityOK(PressSig(variant), params.v)

(* C4: after a successful fit, free_energy_at and pressure_at both return a *)
(* value: neither fails because of the number of stored parameters.         *)
C4_EvaluateAfterFit ==
    [][(FitEnded /\ last.status = "ok" /\ last'.op \in EvalOps)
          => last'.status = "ok"]_vars

(* C6: with a stored vector of the pressure function's parameters,          *)
(* V0 > 0 and B0 > 0, pressure_at(V0) is 0 for every variant.               *)
C6_ZeroPressureAtV0 ==
    (/\ pc = "idle" /\ last.op = "pressure_at" /\ ~params.isNone
     /\ Len(params.v) = Len(PressSig(variant))
     /\ params.v[1] > 0 /\ params.v[2] > 0
     /\ last.v = params.v[1])
        => (last.status = "ok" /\ last.val = RealZero)

(* C7: pressure_at reads every physical parameter from the position of the  *)
(* stored vector from which free_energy_at reads it.                        *)
C7_SamePositions ==
    (pc = "idle" /\ last.op = "pressure_at" /\ last.status = "ok") =>
        \A nm \in DOMAIN last.bind : last.bind[nm] = Bind(FreeSig(variant), params.v)[nm]

SolverFailed == FitEnded /\ last.status \in {"FitDidNotConverge", "TypeError"}

(* what C9 says of every failure of the solver in iteration k = Len(calls)  *)
C9_FailureStops ==
    /\ Len(calls) >= 1 /\ Len(calls) <= last.maxiter
    /\ ~calls[Len(calls)].ok
    /\ \A i \in 1..(Len(calls) - 1) : calls[i].ok
    /\ "ret" \notin DOMAIN last
    /\ Len(calls) = 1 => params = last.pre
    /\ Len(calls) > 1 => params = Some(calls[Len(calls) - 1].popt)

C10_ZeroIterationsRaise ==
    (FitEnded /\ last.option \in {"f", "p"} /\ last.maxiter = 0) =>
        /\ calls = <<>>
        /\ params = last.pre
        /\ last.status = "UnboundLocalError"
        /\ "ret" \notin DOMAIN last

C10_Witness ==
    /\ FitEnded /\ last.option = "p" /\ last.maxiter = 0
    /\ last.status = "UnboundLocalError"
    /\ ~params.isNone /\ ArityOK(PressSig(variant), params.v)

-----------------------------------------------------------------------------
(* Properties of the formulas, checked under SpecStat *)

Vectorized ==
    {"subsystem_partition_function", "subsystem_free_energy",
     "subsystem_internal_energy", "subsystem_volumetric_specific_heat"}

(* C5: each of the six formulas raises InvalidFrequency for a frequency     *)
(* below 0, at every temperature.                                           *)
C5_NegativeFrequencyRaises ==
    (sm.fn \in Formulas /\ ~sm.arr /\ sm.w[1] < 0) => sm.status = "InvalidFrequency"

(* C8: for T > 0 and an array of two or more non-negative frequencies, the  *)
(* four vectorized formulas return an array of the same length whose i-th   *)
(* element is the value of the formula at the i-th frequency.               *)
C8_ElementWise ==
    (/\ sm.fn \in Vectorized /\ sm.T > 0 /\ sm.arr /\ Len(sm.w) >= 2
     /\ \A i \in 1..Len(sm.w) : sm.w[i] >= 0)
        => /\ sm.status = "ok"
           /\ ~sm.scalar
           /\ Len(sm.vals) = Len(sm.w)
           /\ \A i \in 1..Len(sm.w) :
                 sm.vals[i] = Apply(sm.fn, sm.T, Scalar(sm.w[i])).vals[1]

====
